---- MODULE Spec2Model ----
(***************************************************************************)
(* Expense-report intake service: CSV upload, original-file re-download,   *)
(* paginated detail and filtered CSV export behind a Basic-Auth gate.      *)
(* Sources: src/main.py, src/app/auth.py, src/app/routers/expenses.py,     *)
(* src/app/utils/csv_validator.py.                                         *)
(***************************************************************************)
EXTENDS Integers, Sequences, FiniteSets, TLC

(***************************************************************************)
(* Bounds of the model.                                                    *)
(***************************************************************************)
\* request slots (concurrent clients) of SpecBurst and Spec
NumClients == 2
\* the wall clock runs over the seconds 0..MaxTime
MaxTime == 1

(***************************************************************************)
(* Bytes and text.  A byte string is a sequence of tokens: "BOM" is the    *)
(* UTF-8 byte-order mark, "BAD" a byte that is not valid UTF-8, "LF" the   *)
(* line feed; every other token is one printable character.                *)
(***************************************************************************)
None == "None"

RECURSIVE SplitOn(_, _)
\* str.split(sep) / the record and field splitting of csv.reader
SplitOn(s, sep) ==
    IF \A i \in 1..Len(s) : s[i] # sep
    THEN <<s>>
    ELSE LET k == CHOOSE i \in 1..Len(s) :
                      s[i] = sep /\ \A j \in 1..(i-1) : s[j] # sep
         IN <<SubSeq(s, 1, k-1)>> \o SplitOn(SubSeq(s, k+1, Len(s)), sep)

\* bytes.decode("utf-8-sig"): fails on an invalid byte, strips one leading BOM
DecodeOk(raw) == \A i \in 1..Len(raw) : raw[i] # "BAD"
Decode(raw) == IF Len(raw) > 0 /\ raw[1] = "BOM" THEN Tail(raw) ELSE raw

\* list(csv.reader(io.StringIO(text))): one record per line, a trailing line
\* feed ends the last record, an empty line is the empty record []
CsvLines(text) ==
    LET segs == SplitOn(text, "LF")
    IN IF segs[Len(segs)] = <<>> THEN SubSeq(segs, 1, Len(segs) - 1) ELSE segs
CsvRecord(line) == IF line = <<>> THEN <<>> ELSE SplitOn(line, ",")
CsvReader(text) == [i \in 1..Len(CsvLines(text)) |-> CsvRecord(CsvLines(text)[i])]

SeqToSet(s) == {s[i] : i \in 1..Len(s)}

\* str.endswith(".csv") on a file name kept as [stem, ext]
EndsWithCsv(filename) == filename.ext = ".csv"

\* validate_csv(file): the checks in the order of the code; the result is
\* either a 400 rejection or (headers, data_rows)
validate_csv(filename, raw_bytes) ==
    IF raw_bytes = <<>> THEN [ok |-> FALSE, status |-> 400, detail |-> "empty"]
    ELSE IF ~EndsWithCsv(filename)
         THEN [ok |-> FALSE, status |-> 400, detail |-> "extension"]
    ELSE IF ~DecodeOk(raw_bytes)
         THEN [ok |-> FALSE, status |-> 400, detail |-> "decode"]
    ELSE LET rows == CsvReader(Decode(raw_bytes)) IN
         IF Len(rows) < 2
         THEN [ok |-> FALSE, status |-> 400, detail |-> "no data rows"]
         ELSE LET headers == rows[1]
                  data_rows == Tail(rows) IN
              IF Len(headers) # Cardinality(SeqToSet(headers))
              THEN [ok |-> FALSE, status |-> 400, detail |-> "duplicate header"]
              ELSE IF \E i \in 1..Len(data_rows) : Len(data_rows[i]) # Len(headers)
              THEN [ok |-> FALSE, status |-> 400, detail |-> "column count"]
              ELSE [ok |-> TRUE, status |-> 200, detail |-> "ok",
                    headers |-> headers, rows |-> data_rows]

(***************************************************************************)
(* Inputs.  File names are [stem, ext]; the uploaded byte strings cover    *)
(* every branch of validate_csv.                                           *)
(***************************************************************************)
CsvName == [stem |-> "f", ext |-> ".csv"]
TxtName == [stem |-> "f", ext |-> ".txt"]

\* a,b / 1,x / 2,X
CsvTwoCols == <<"a", ",", "b", "LF", "1", ",", "x", "LF", "2", ",", "X">>
\* BOM b / x
CsvBomOneCol == <<"BOM", "b", "LF", "x", "LF">>
CsvEmpty == <<>>
CsvHeaderOnly == <<"a", ",", "b", "LF">>
CsvDupHeader == <<"a", ",", "a", "LF", "1", ",", "2">>
CsvShortRow == <<"a", ",", "b", "LF", "1">>
CsvUndecodable == <<"a", "LF", "BAD">>
ValidCsvs == {CsvTwoCols, CsvBomOneCol}
InvalidCsvs == {CsvEmpty, CsvHeaderOnly, CsvDupHeader, CsvShortRow, CsvUndecodable}
\* the multipart file of an upload request: its name and its bytes
UploadFile(filename, body) == [filename |-> filename, body |-> body]
UploadFiles ==
    {UploadFile(CsvName, b) : b \in ValidCsvs \cup InvalidCsvs}
        \cup {UploadFile(TxtName, CsvTwoCols)}

(***************************************************************************)
(* State.                                                                  *)
(***************************************************************************)
VARIABLES
    now,            \* datetime.now(), in whole seconds
    files,          \* the uploads directory: path -> bytes
    datasets,       \* committed rows of expense_datasets
    expense_rows,   \* committed rows of expense_rows
    dataset_seq,    \* next value of expense_datasets.id (never rolled back)
    row_seq,        \* next value of expense_rows.id (never rolled back)
    pc,             \* per request: where its processing stands
    request,        \* per request: endpoint, Authorization header, arguments
    upl,            \* per request: locals of upload_expense_csv (saved: the
                    \* with-block that writes the file has run)
    txn,            \* per request: uncommitted work of its connection
    conn,           \* per request: connections and cursors opened / still open
    resp            \* per request: the response sent

vars == <<now, files, datasets, expense_rows, dataset_seq, row_seq,
          pc, request, upl, txn, conn, resp>>

Clients == 1..NumClients

NoRequest == [endpoint |-> None, auth |-> [present |-> FALSE, value |-> <<>>]]
NoUpload == [filename |-> [stem |-> "", ext |-> ""], content |-> <<>>, pos |-> 0,
             headers |-> <<>>, rows |-> <<>>,
             save_path |-> [ts |-> 0, name |-> [stem |-> "", ext |-> ""]],
             saved |-> FALSE, dataset_id |-> 0]
NoTxn == [datasets |-> {}, rows |-> {}]
NoConn == [opened |-> 0, open |-> 0, cursors |-> 0]
NoResp == [status |-> 0]

Init ==
    /\ now = 0
    /\ files = [p \in {} |-> <<>>]
    /\ datasets = {}
    /\ expense_rows = {}
    /\ dataset_seq = 1
    /\ row_seq = 1
    /\ pc = [r \in Clients |-> "idle"]
    /\ request = [r \in Clients |-> NoRequest]
    /\ upl = [r \in Clients |-> NoUpload]
    /\ txn = [r \in Clients |-> NoTxn]
    /\ conn = [r \in Clients |-> NoConn]
    /\ resp = [r \in Clients |-> NoResp]

\* the clock of datetime.now().strftime("%Y%m%d_%H%M%S"): one-second steps
Tick ==
    /\ now < MaxTime
    /\ now' = now + 1
    /\ UNCHANGED <<files, datasets, expense_rows, dataset_seq, row_seq,
                   pc, request, upl, txn, conn, resp>>

(***************************************************************************)
(* The Basic-Auth gate (src/app/auth.py), registered on the application in *)
(* src/main.py.  An Authorization header is a sequence of tokens: a scheme *)
(* word, single spaces, and base64 words; B64 gives what                   *)
(* base64.b64decode(word).decode("utf-8") yields for each word.            *)
(***************************************************************************)
USERNAME == <<"admin">>
PASSWORD == <<"secret123">>

B64(word) ==
    CASE word = "YWRtaW46c2VjcmV0MTIz" ->
             [ok |-> TRUE, text |-> <<"admin", ":", "secret123">>]
      [] word = "YWRtaW46d3Jvbmc=" ->
             [ok |-> TRUE, text |-> <<"admin", ":", "wrong">>]
      [] word = "cm9vdDpzZWNyZXQxMjM=" ->
             [ok |-> TRUE, text |-> <<"root", ":", "secret123">>]
      [] word = "YWRtaW4=" ->
             [ok |-> TRUE, text |-> <<"admin">>]
      [] word = "YWRtaW46c2VjcmV0MTIzOng=" ->
             [ok |-> TRUE, text |-> <<"admin", ":", "secret123", ":", "x">>]
      \* the single byte 0xFF: not UTF-8
      [] word = "/w==" -> [ok |-> FALSE, text |-> <<>>]
      \* no base64 character at all: discarded, the empty text
      [] word = "!!!" -> [ok |-> TRUE, text |-> <<>>]
      \* anything else: binascii.Error
      [] OTHER -> [ok |-> FALSE, text |-> <<>>]

\* b64decode of a header field: the empty field decodes to the empty text
DecodeCredentials(encoded) ==
    IF encoded = <<>> THEN [ok |-> TRUE, text |-> <<>>]
    ELSE IF Len(encoded) = 1 THEN B64(encoded[1])
    ELSE [ok |-> FALSE, text |-> <<>>]

\* request.headers.get("authorization"): absent, or the header's value
NoHeader == [present |-> FALSE, value |-> <<>>]
Header(value) == [present |-> TRUE, value |-> value]
GoodHeader == Header(<<"Basic", " ", "YWRtaW46c2VjcmV0MTIz">>)
HeaderValues == {
    <<>>,
    <<"Bearer", " ", "YWRtaW46c2VjcmV0MTIz">>,
    <<"basic", " ", "YWRtaW46c2VjcmV0MTIz">>,
    <<"Basic">>,
    <<"Basic", " ">>,
    <<"Basic", " ", " ", "YWRtaW46c2VjcmV0MTIz">>,
    <<"Basic", " ", "!!!">>,
    <<"Basic", " ", "/w==">>,
    <<"Basic", " ", "YWRtaW4=">>,
    <<"Basic", " ", "YWRtaW46d3Jvbmc=">>,
    <<"Basic", " ", "cm9vdDpzZWNyZXQxMjM=">>,
    <<"Basic", " ", "YWRtaW46c2VjcmV0MTIzOng=">>,
    <<"Basic", " ", "YWRtaW46c2VjcmV0MTIz">>,
    <<"Basic", " ", "YWRtaW46c2VjcmV0MTIz", " ", "x">> }
Headers == {NoHeader} \cup {Header(v) : v \in HeaderValues}

\* auth.startswith("Basic ")
StartsWithBasic(auth) == Len(auth) >= 2 /\ auth[1] = "Basic" /\ auth[2] = " "

\* decoded.split(":", 1)
SplitCredentials(decoded) ==
    IF \A i \in 1..Len(decoded) : decoded[i] # ":"
    THEN <<decoded>>
    ELSE LET k == CHOOSE i \in 1..Len(decoded) :
                      decoded[i] = ":" /\ \A j \in 1..(i-1) : decoded[j] # ":"
         IN <<SubSeq(decoded, 1, k-1), SubSeq(decoded, k+1, Len(decoded))>>

\* a slip: "and" for "or" in the credential test
Authorized_EitherMatches(header) ==
    LET auth == header.value IN
    IF ~header.present \/ auth = <<>> \/ ~StartsWithBasic(auth) THEN FALSE
    ELSE LET encoded == SplitOn(auth, " ")[2]
             decoded == DecodeCredentials(encoded)
         IN IF ~decoded.ok THEN FALSE
            ELSE LET up == SplitCredentials(decoded.text)
                 IN IF Len(up) # 2 THEN FALSE
                    ELSE ~(up[1] # USERNAME /\ up[2] # PASSWORD)

\* basic_auth_middleware: TRUE iff the request is handed to call_next
Authorized(header) ==
    LET auth == header.value IN
    IF ~header.present \/ auth = <<>> \/ ~StartsWithBasic(auth) THEN FALSE
    ELSE LET encoded == SplitOn(auth, " ")[2]
             decoded == DecodeCredentials(encoded)
         IN IF ~decoded.ok THEN FALSE
            ELSE LET up == SplitCredentials(decoded.text)
                 IN IF Len(up) # 2 THEN FALSE
                    ELSE ~(up[1] # USERNAME \/ up[2] # PASSWORD)

Unauthorized401 ==
    [status |-> 401, www_authenticate |-> "Basic realm", body |-> <<>>]

Endpoints == {"upload", "list", "detail", "download",
              "download_csv", "download_all_csv", "download_all_json"}

\* a request for an endpoint of the /api/expenses router reaches the application
Arrive(r, endpoint, auth) ==
    /\ pc[r] = "idle"
    /\ pc' = [pc EXCEPT ![r] = "middleware"]
    /\ request' = [request EXCEPT ![r] = [endpoint |-> endpoint, auth |-> auth]]
    /\ UNCHANGED <<now, files, datasets, expense_rows, dataset_seq, row_seq,
                   upl, txn, conn, resp>>

\* basic_auth_middleware answers 401 without calling the route handler
MiddlewareReject(r) ==
    /\ pc[r] = "middleware"
    /\ ~Authorized(request[r].auth)
    /\ resp' = [resp EXCEPT ![r] = Unauthorized401]
    /\ pc' = [pc EXCEPT ![r] = "done"]
    /\ UNCHANGED <<now, files, datasets, expense_rows, dataset_seq, row_seq,
                   request, upl, txn, conn>>

\* basic_auth_middleware: return await call_next(request)
MiddlewarePass(r) ==
    /\ pc[r] = "middleware"
    /\ Authorized(request[r].auth)
    /\ pc' = [pc EXCEPT ![r] =
                IF request[r].endpoint = "upload" THEN "validate" ELSE "connect"]
    /\ UNCHANGED <<now, files, datasets, expense_rows, dataset_seq, row_seq,
                   request, upl, txn, conn, resp>>

(***************************************************************************)
(* upload_expense_csv (src/app/routers/expenses.py:150-182).               *)
(***************************************************************************)
Min(a, b) == IF a <= b THEN a ELSE b

\* file.file.read() / await file.read(): the bytes from the stream position on
FileRead(f) == SubSeq(f.content, f.pos + 1, Len(f.content))

\* dict(zip(headers, row)) as stored in row_data: an ordered mapping, kept as
\* a sequence of <<key, value>> pairs (the headers are distinct here)
DictZip(headers, row) ==
    [i \in 1..Min(Len(headers), Len(row)) |-> <<headers[i], row[i]>>]

\* os.path.join(UPLOAD_DIR, f"{timestamp}_{file.filename}")
SavePath(timestamp, filename) == [ts |-> timestamp, name |-> filename]

\* a slip: the file saved before the upload is validated
UploadValidate_SaveFirst(r, filename, body) ==
    /\ pc[r] = "validate"
    /\ LET v == validate_csv(filename, body)
           save_path == SavePath(now, filename)
       IN /\ files' = [p \in DOMAIN files \cup {save_path} |->
                          IF p = save_path THEN body ELSE files[p]]
          /\ upl' = [upl EXCEPT ![r] =
                [filename |-> filename, content |-> body, pos |-> Len(body),
                 headers |-> IF v.ok THEN v.headers ELSE <<>>,
                 rows |-> IF v.ok THEN v.rows ELSE <<>>,
                 save_path |-> save_path, saved |-> TRUE, dataset_id |-> 0]]
          /\ pc' = [pc EXCEPT ![r] = IF v.ok THEN "connect" ELSE "done"]
          /\ resp' = IF v.ok THEN resp
                     ELSE [resp EXCEPT ![r] = [status |-> v.status, detail |-> v.detail]]
    /\ UNCHANGED <<now, datasets, expense_rows, dataset_seq, row_seq,
                   request, txn, conn>>

\* line 153: validate_csv(file) reads the whole stream and checks it; a
\* rejection is the 400 answer, raised before anything else happens
UploadValidate(r, filename, body) ==
    /\ pc[r] = "validate"
    /\ LET stream == [content |-> body, pos |-> 0]
           raw_bytes == FileRead(stream)
           v == validate_csv(filename, raw_bytes)
       IN IF v.ok
          THEN /\ upl' = [upl EXCEPT ![r] =
                     [filename |-> filename, content |-> body, pos |-> Len(body),
                      headers |-> v.headers, rows |-> v.rows,
                      save_path |-> SavePath(0, filename), saved |-> FALSE,
                      dataset_id |-> 0]]
               /\ pc' = [pc EXCEPT ![r] = "save"]
               /\ resp' = resp
          ELSE /\ upl' = [upl EXCEPT ![r] =
                     [filename |-> filename, content |-> body, pos |-> Len(body),
                      headers |-> <<>>, rows |-> <<>>,
                      save_path |-> SavePath(0, filename), saved |-> FALSE,
                      dataset_id |-> 0]]
               /\ pc' = [pc EXCEPT ![r] = "done"]
               /\ resp' = [resp EXCEPT ![r] =
                             [status |-> v.status, detail |-> v.detail]]
    /\ UNCHANGED <<now, files, datasets, expense_rows, dataset_seq, row_seq,
                   request, txn, conn>>

\* lines 155-158: the original file is written under a second-resolution
\* timestamp; open(save_path, "wb") replaces whatever the path held
UploadSaveFile(r) ==
    /\ pc[r] = "save"
    /\ LET save_path == SavePath(now, upl[r].filename)
           written == FileRead([content |-> upl[r].content, pos |-> upl[r].pos])
       IN /\ files' = [p \in DOMAIN files \cup {save_path} |->
                          IF p = save_path THEN written ELSE files[p]]
          /\ upl' = [upl EXCEPT ![r].save_path = save_path, ![r].saved = TRUE]
    /\ pc' = [pc EXCEPT ![r] = "connect"]
    /\ UNCHANGED <<now, datasets, expense_rows, dataset_seq, row_seq,
                   request, txn, conn, resp>>

\* conn = get_connection(); cur = conn.cursor()   (every handler's first line)
Connect(r) ==
    /\ pc[r] = "connect"
    /\ conn' = [conn EXCEPT ![r] = [opened |-> @.opened + 1, open |-> @.open + 1,
                                    cursors |-> @.cursors + 1]]
    /\ pc' = [pc EXCEPT ![r] = "query"]
    /\ UNCHANGED <<now, files, datasets, expense_rows, dataset_seq, row_seq,
                   request, upl, txn, resp>>

\* get_connection() raises (the database is unreachable): nothing was opened,
\* the exception leaves the handler and the application answers 500
ConnectFails(r) ==
    /\ pc[r] = "connect"
    /\ resp' = [resp EXCEPT ![r] = [status |-> 500, detail |-> "connect"]]
    /\ pc' = [pc EXCEPT ![r] = "done"]
    /\ UNCHANGED <<now, files, datasets, expense_rows, dataset_seq, row_seq,
                   request, upl, txn, conn>>

\* a slip: the header line counted as a row
RowCount_WithHeader(rows) == Len(rows) + 1
\* len(rows), the row_count stored (line 166) and answered (line 182)
RowCount(rows) == Len(rows)

\* a slip: the connection in autocommit mode, the dataset visible at once
UploadInsertDataset_Autocommit(r) ==
    /\ pc[r] = "query" /\ request[r].endpoint = "upload"
    /\ txn[r].datasets = {}
    /\ LET d == [id |-> dataset_seq, file_name |-> upl[r].filename,
                 row_count |-> RowCount(upl[r].rows),
                 original_path |-> upl[r].save_path]
       IN /\ txn' = [txn EXCEPT ![r].datasets = {d}]
          /\ datasets' = datasets \cup {d}
    /\ upl' = [upl EXCEPT ![r].dataset_id = dataset_seq]
    /\ dataset_seq' = dataset_seq + 1
    /\ UNCHANGED <<now, files, expense_rows, row_seq, pc, request, conn, resp>>

\* lines 162-167: INSERT INTO expense_datasets ... RETURNING id
UploadInsertDataset(r) ==
    /\ pc[r] = "query" /\ request[r].endpoint = "upload"
    /\ txn[r].datasets = {}
    /\ txn' = [txn EXCEPT ![r].datasets =
                  {[id |-> dataset_seq, file_name |-> upl[r].filename,
                    row_count |-> RowCount(upl[r].rows),
                    original_path |-> upl[r].save_path]}]
    /\ upl' = [upl EXCEPT ![r].dataset_id = dataset_seq]
    /\ dataset_seq' = dataset_seq + 1
    /\ UNCHANGED <<now, files, datasets, expense_rows, row_seq,
                   pc, request, conn, resp>>

\* lines 169-173: one INSERT INTO expense_rows per data row, in file order
UploadInsertRow(r) ==
    /\ pc[r] = "query" /\ request[r].endpoint = "upload"
    /\ txn[r].datasets # {}
    /\ Cardinality(txn[r].rows) < Len(upl[r].rows)
    /\ LET i == Cardinality(txn[r].rows) + 1
       IN txn' = [txn EXCEPT ![r].rows = @ \cup
                     {[id |-> row_seq, dataset_id |-> upl[r].dataset_id,
                       row_data |-> DictZip(upl[r].headers, upl[r].rows[i])]}]
    /\ row_seq' = row_seq + 1
    /\ UNCHANGED <<now, files, datasets, expense_rows, dataset_seq,
                   pc, request, upl, conn, resp>>

\* line 175 and 182: conn.commit() makes the transaction's work visible
UploadCommit(r) ==
    /\ pc[r] = "query" /\ request[r].endpoint = "upload"
    /\ txn[r].datasets # {}
    /\ Cardinality(txn[r].rows) = Len(upl[r].rows)
    /\ datasets' = datasets \cup txn[r].datasets
    /\ expense_rows' = expense_rows \cup txn[r].rows
    /\ txn' = [txn EXCEPT ![r] = NoTxn]
    /\ resp' = [resp EXCEPT ![r] =
                  [status |-> 200, dataset_id |-> upl[r].dataset_id,
                   row_count |-> RowCount(upl[r].rows), file |-> upl[r].filename]]
    /\ pc' = [pc EXCEPT ![r] = "finally"]
    /\ UNCHANGED <<now, files, dataset_seq, row_seq, request, upl, conn>>

\* a slip: the failure path leaves without the finally block
UploadDbError_NoFinally(r) ==
    /\ pc[r] = "query" /\ request[r].endpoint = "upload"
    /\ txn' = [txn EXCEPT ![r] = NoTxn]
    /\ resp' = [resp EXCEPT ![r] = [status |-> 500, detail |-> "DB error"]]
    /\ pc' = [pc EXCEPT ![r] = "done"]
    /\ UNCHANGED <<now, files, datasets, expense_rows, dataset_seq, row_seq,
                   request, upl, conn>>

\* lines 176-178: an insert or the commit raises; conn.rollback() discards the
\* transaction's work and the handler raises the 500
UploadDbError(r) ==
    /\ pc[r] = "query" /\ request[r].endpoint = "upload"
    /\ txn' = [txn EXCEPT ![r] = NoTxn]
    /\ resp' = [resp EXCEPT ![r] = [status |-> 500, detail |-> "DB error"]]
    /\ pc' = [pc EXCEPT ![r] = "finally"]
    /\ UNCHANGED <<now, files, datasets, expense_rows, dataset_seq, row_seq,
                   request, upl, conn>>

\* finally: cur.close(); conn.close()   (every handler's last lines)
Finally(r) ==
    /\ pc[r] = "finally"
    /\ conn' = [conn EXCEPT ![r].open = @ - 1, ![r].cursors = @ - 1]
    /\ pc' = [pc EXCEPT ![r] = "done"]
    /\ UNCHANGED <<now, files, datasets, expense_rows, dataset_seq, row_seq,
                   request, upl, txn, resp>>

Upload(r) ==
    \/ \E file \in UploadFiles : UploadValidate(r, file.filename, file.body)
    \/ UploadSaveFile(r)
    \/ UploadInsertDataset(r)
    \/ UploadInsertRow(r)
    \/ UploadCommit(r)
    \/ UploadDbError(r)

(***************************************************************************)
(* What the store answers to the handlers' queries.                        *)
(***************************************************************************)
RECURSIVE SortById(_)
\* ORDER BY id over a set of rows with distinct ids
SortById(S) ==
    IF S = {} THEN <<>>
    ELSE LET m == CHOOSE x \in S : \A y \in S : x.id <= y.id
         IN <<m>> \o SortById(S \ {m})

RECURSIVE SortByDatasetAndId(_)
\* ORDER BY dataset_id, id
SortByDatasetAndId(S) ==
    IF S = {} THEN <<>>
    ELSE LET m == CHOOSE x \in S : \A y \in S :
                      \/ x.dataset_id < y.dataset_id
                      \/ x.dataset_id = y.dataset_id /\ x.id <= y.id
         IN <<m>> \o SortByDatasetAndId(S \ {m})

\* [r[0] for r in cur.fetchall()]
RowData(rows) == [i \in 1..Len(rows) |-> rows[i].row_data]

\* the keys of a row_data mapping, in order
Keys(row_data) == [i \in 1..Len(row_data) |-> row_data[i][1]]
KeySet(row_data) == {row_data[i][1] : i \in 1..Len(row_data)}
\* row_data ->> key where the key is present
GetText(row_data, key) ==
    row_data[CHOOSE i \in 1..Len(row_data) : row_data[i][1] = key][2]

\* case folding of ILIKE / str.lower() on one character
LowerChar(c) == CASE c = "A" -> "a" [] c = "B" -> "b" [] c = "X" -> "x" [] OTHER -> c
Lower(s) == [i \in 1..Len(s) |-> LowerChar(s[i])]
\* text ILIKE '%' || needle || '%'
ILikeContains(text, needle) ==
    \E i \in 1..(Len(text) - Len(needle) + 1) :
        SubSeq(Lower(text), i, i + Len(needle) - 1) = Lower(needle)

\* row_data ->> key ILIKE %needle%: NULL (not satisfied) when the key is absent
RowILike(row_data, key, needle) ==
    key \in KeySet(row_data) /\ ILikeContains(GetText(row_data, key), needle)

(***************************************************************************)
(* list_expense_datasets (expenses.py:187-208).  The order of the answer   *)
(* (uploaded_at DESC) is left out: the answer is kept as a set.            *)
(***************************************************************************)
list_expense_datasets ==
    [status |-> 200,
     data |-> {[id |-> d.id, file_name |-> d.file_name, row_count |-> d.row_count] :
                  d \in datasets}]

ListDatasets(r) ==
    /\ pc[r] = "query" /\ request[r].endpoint = "list"
    /\ resp' = [resp EXCEPT ![r] = list_expense_datasets]
    /\ pc' = [pc EXCEPT ![r] = "finally"]
    /\ UNCHANGED <<now, files, datasets, expense_rows, dataset_seq, row_seq,
                   request, upl, txn, conn>>

\* a slip: pages counted from 0
Offset_ZeroBased(page, size) == page * size
\* offset = (page - 1) * size   (line 236)
Offset(page, size) == (page - 1) * size

(***************************************************************************)
(* get_expense_details (expenses.py:213-248).  An absent filter_col or     *)
(* filter_val is the empty string, which the code treats the same way.     *)
(***************************************************************************)
get_expense_details(dataset_id, page, size, filter_col, filter_val) ==
    IF ~\E d \in datasets : d.id = dataset_id
    THEN [status |-> 404, detail |-> "Dataset not found"]
    ELSE LET filtered == filter_col # <<>> /\ filter_val # <<>>
             matching == SortById(
                 {x \in expense_rows :
                     /\ x.dataset_id = dataset_id
                     /\ filtered => RowILike(x.row_data, filter_col, filter_val)})
             total == Len(matching)
             offset == Offset(page, size)
         IN IF size < 0 \/ offset < 0
            \* LIMIT / OFFSET must not be negative: the query raises
            THEN [status |-> 500, detail |-> "DB error"]
            ELSE [status |-> 200,
                  meta |-> [total_rows |-> total, page |-> page, page_size |-> size],
                  data |-> [i \in 1..Min(size, IF total > offset THEN total - offset ELSE 0)
                               |-> matching[offset + i].row_data]]

GetDetails(r, dataset_id, page, size, filter_col, filter_val) ==
    /\ pc[r] = "query" /\ request[r].endpoint = "detail"
    /\ request' = [request EXCEPT ![r] =
          [endpoint |-> "detail", auth |-> @.auth, dataset_id |-> dataset_id,
           page |-> page, size |-> size,
           filter_col |-> filter_col, filter_val |-> filter_val]]
    /\ resp' = [resp EXCEPT ![r] =
                  get_expense_details(dataset_id, page, size, filter_col, filter_val)]
    /\ pc' = [pc EXCEPT ![r] = "finally"]
    /\ UNCHANGED <<now, files, datasets, expense_rows, dataset_seq, row_seq,
                   upl, txn, conn>>

(***************************************************************************)
(* download_expense_csv (expenses.py:253-269).                             *)
(***************************************************************************)
download_expense_csv(dataset_id) ==
    IF ~\E d \in datasets : d.id = dataset_id
    THEN [status |-> 404, detail |-> "Dataset not found"]
    ELSE LET record == CHOOSE d \in datasets : d.id = dataset_id
         IN IF record.original_path \notin DOMAIN files
            THEN [status |-> 404, detail |-> "File not found"]
            ELSE [status |-> 200, filename |-> record.file_name,
                  body |-> files[record.original_path]]

DownloadOriginal(r, dataset_id) ==
    /\ pc[r] = "query" /\ request[r].endpoint = "download"
    /\ request' = [request EXCEPT ![r] =
          [endpoint |-> "download", auth |-> @.auth, dataset_id |-> dataset_id]]
    /\ resp' = [resp EXCEPT ![r] = download_expense_csv(dataset_id)]
    /\ pc' = [pc EXCEPT ![r] = "finally"]
    /\ UNCHANGED <<now, files, datasets, expense_rows, dataset_seq, row_seq,
                   upl, txn, conn>>

(***************************************************************************)
(* build_filter_conditions (expenses.py:22-77).  A list argument that is   *)
(* absent (None) is the empty list: the code tests lists by truth value.   *)
(* The WHERE text is a sequence of the code's fixed fragments; a bound     *)
(* parameter is [text |-> characters] or [num |-> number].                 *)
(***************************************************************************)
RECURSIVE Flatten(_)
\* the concatenation of a sequence of sequences
Flatten(ss) == IF ss = <<>> THEN <<>> ELSE Head(ss) \o Flatten(Tail(ss))

RECURSIVE Join(_, _)
\* sep.join(parts), each part a sequence of fragments
Join(parts, sep) ==
    IF parts = <<>> THEN <<>>
    ELSE IF Len(parts) = 1 THEN parts[1]
    ELSE parts[1] \o <<sep>> \o Join(Tail(parts), sep)

RECURSIVE Strip(_)
\* str.strip() of blanks
Strip(v) ==
    IF v # <<>> /\ v[1] = " " THEN Strip(Tail(v))
    ELSE IF v # <<>> /\ v[Len(v)] = " " THEN Strip(SubSeq(v, 1, Len(v) - 1))
    ELSE v

SelectNonEmpty(ss) == SelectSeq(ss, LAMBDA v : v # <<>>)

Digits == {"0", "1", "2", "3", "4", "5", "6", "7", "8", "9"}
DigitValue(c) == CASE c = "0" -> 0 [] c = "1" -> 1 [] c = "2" -> 2 [] c = "3" -> 3
                   [] c = "4" -> 4 [] c = "5" -> 5 [] c = "6" -> 6 [] c = "7" -> 7
                   [] c = "8" -> 8 [] c = "9" -> 9
\* the texts float() and CAST(... AS NUMERIC) accept here: unsigned digits
IsNumber(v) == v # <<>> /\ \A i \in 1..Len(v) : v[i] \in Digits
RECURSIVE NumberOf(_)
NumberOf(v) ==
    IF v = <<>> THEN 0
    ELSE 10 * NumberOf(SubSeq(v, 1, Len(v) - 1)) + DigitValue(v[Len(v)])

TextParam(v) == [text |-> v]
NumParam(n) == [num |-> n]

\* op.lower()
LowerOp(op) ==
    CASE op = "GT" -> "gt" [] op = "LT" -> "lt" [] op = "GE" -> "ge"
      [] op = "LE" -> "le" [] op = "EQ" -> "eq" [] op = "NE" -> "ne"
      [] op = "BETWEEN" -> "between" [] op = "Between" -> "between"
      [] OTHER -> op

\* ops = {"gt": ">", "lt": "<", "ge": ">=", "le": "<=", "eq": "="}
OpsKeys == {"gt", "lt", "ge", "le", "eq"}
OpsFragment(op) ==
    CASE op = "gt" -> "(CAST(row_data ->> %s AS NUMERIC) > %s)"
      [] op = "lt" -> "(CAST(row_data ->> %s AS NUMERIC) < %s)"
      [] op = "ge" -> "(CAST(row_data ->> %s AS NUMERIC) >= %s)"
      [] op = "le" -> "(CAST(row_data ->> %s AS NUMERIC) <= %s)"
      [] op = "eq" -> "(CAST(row_data ->> %s AS NUMERIC) = %s)"

Built(clauses, params) == [status |-> 200, clauses |-> clauses, params |-> params]
Raised(status) == [status |-> status, clauses |-> <<>>, params |-> <<>>]

\* lines 34-41: one (col, val) pair of the string group
StringEntry(col, val) ==
    LET parts == SplitOn(val, ",")
        or_vals == SelectNonEmpty([i \in 1..Len(parts) |-> Strip(parts[i])])
        conds == [i \in 1..Len(or_vals) |-> <<"row_data ->> %s ILIKE %s">>]
    IN IF or_vals = <<>> THEN Built(<<>>, <<>>)
       ELSE Built(<<<<"(">> \o Join(conds, " OR ") \o <<")">>>>,
                  Flatten([i \in 1..Len(or_vals) |->
                      <<TextParam(col), TextParam(<<"%">> \o or_vals[i] \o <<"%">>)>>]))

\* a slip: an operator missing from ops emits no clause instead of raising
NumericEntry_IgnoresUnknown(col, op, val) ==
    IF op # "" /\ LowerOp(op) = "between"
    THEN LET bounds == SplitOn(val, ",")
         IN IF Len(bounds) # 2 \/ ~IsNumber(Strip(bounds[1])) \/ ~IsNumber(Strip(bounds[2]))
            THEN Raised(500)
            ELSE Built(<<<<"(CAST(row_data ->> %s AS NUMERIC) BETWEEN %s AND %s)">>>>,
                       <<TextParam(col), NumParam(NumberOf(Strip(bounds[1]))),
                         NumParam(NumberOf(Strip(bounds[2])))>>)
    ELSE IF op = "" \/ LowerOp(op) \notin OpsKeys
         THEN Built(<<>>, <<>>)
         ELSE IF ~IsNumber(Strip(val))
              THEN Raised(500)
              ELSE Built(<<<<OpsFragment(LowerOp(op))>>>>,
                         <<TextParam(col), NumParam(NumberOf(Strip(val)))>>)

\* lines 46-55: one (col, op, val) triple of the numeric group
NumericEntry(col, op, val) ==
    IF op # "" /\ LowerOp(op) = "between"
    THEN LET bounds == SplitOn(val, ",")
         IN \* min_v, max_v = map(float, val.split(",")): ValueError otherwise
            IF Len(bounds) # 2 \/ ~IsNumber(Strip(bounds[1])) \/ ~IsNumber(Strip(bounds[2]))
            THEN Raised(500)
            ELSE Built(<<<<"(CAST(row_data ->> %s AS NUMERIC) BETWEEN %s AND %s)">>>>,
                       <<TextParam(col), NumParam(NumberOf(Strip(bounds[1]))),
                         NumParam(NumberOf(Strip(bounds[2])))>>)
    ELSE IF op = "" \/ LowerOp(op) \notin OpsKeys
         THEN Raised(400)
         ELSE IF ~IsNumber(Strip(val))
              THEN Raised(500)
              ELSE Built(<<<<OpsFragment(LowerOp(op))>>>>,
                         <<TextParam(col), NumParam(NumberOf(Strip(val)))>>)

\* lines 63-71: one (col, start, end) triple of the date group
DateEntry(col, start, end) ==
    IF start # <<>> /\ end # <<>>
    THEN Built(<<<<"(CAST(row_data ->> %s AS DATE) BETWEEN %s AND %s)">>>>,
               <<TextParam(col), TextParam(start), TextParam(end)>>)
    ELSE IF start # <<>>
    THEN Built(<<<<"(CAST(row_data ->> %s AS DATE) >= %s)">>>>,
               <<TextParam(col), TextParam(start)>>)
    ELSE IF end # <<>>
    THEN Built(<<<<"(CAST(row_data ->> %s AS DATE) <= %s)">>>>,
               <<TextParam(col), TextParam(end)>>)
    ELSE Built(<<>>, <<>>)

\* the entries of one group in order: the first one that raises ends the call
Collect(entries) ==
    IF \E i \in 1..Len(entries) : entries[i].status # 200
    THEN Raised(entries[CHOOSE i \in 1..Len(entries) :
                            /\ entries[i].status # 200
                            /\ \A j \in 1..(i-1) : entries[j].status = 200].status)
    ELSE Built(Flatten([i \in 1..Len(entries) |-> entries[i].clauses]),
               Flatten([i \in 1..Len(entries) |-> entries[i].params]))

\* a slip: date_from / date_to left as given
PadTo_AsGiven(list, n) == list
\* date_from / date_to padded with None up to len(date_col)
PadTo(list, n) == list \o [i \in 1..(IF n > Len(list) THEN n - Len(list) ELSE 0) |-> <<>>]

NoFilters == [filter_col |-> <<>>, filter_val |-> <<>>,
              num_col |-> <<>>, num_op |-> <<>>, num_val |-> <<>>,
              date_col |-> <<>>, date_from |-> <<>>, date_to |-> <<>>]

\* a slip: the text always opens with WHERE
build_filter_conditions_AlwaysWhere(f, include_dataset_id) ==
    LET strings ==
            IF f.filter_col # <<>> /\ f.filter_val # <<>>
            THEN Collect([i \in 1..Min(Len(f.filter_col), Len(f.filter_val)) |->
                             StringEntry(f.filter_col[i], f.filter_val[i])])
            ELSE Built(<<>>, <<>>)
        numbers ==
            IF f.num_col # <<>> /\ f.num_op # <<>> /\ f.num_val # <<>>
            THEN Collect([i \in 1..Min(Len(f.num_col), Min(Len(f.num_op), Len(f.num_val))) |->
                             NumericEntry(f.num_col[i], f.num_op[i], f.num_val[i])])
            ELSE Built(<<>>, <<>>)
        dates ==
            IF f.date_col # <<>>
            THEN LET max_len == Len(f.date_col)
                     date_from == PadTo(f.date_from, max_len)
                     date_to == PadTo(f.date_to, max_len)
                 IN Collect([i \in 1..Min(max_len, Min(Len(date_from), Len(date_to))) |->
                                DateEntry(f.date_col[i], date_from[i], date_to[i])])
            ELSE Built(<<>>, <<>>)
        all == Collect(<<strings, numbers, dates>>)
        where_clause == Join(all.clauses, " AND ")
    IN IF all.status # 200
       THEN [status |-> all.status, where_clause |-> <<>>, params |-> <<>>]
       ELSE [status |-> 200,
             where_clause |->
                 IF where_clause = <<>> THEN <<>>
                 ELSE <<"WHERE ">> \o where_clause,
             params |-> all.params]

build_filter_conditions(f, include_dataset_id) ==
    LET strings ==
            IF f.filter_col # <<>> /\ f.filter_val # <<>>
            THEN Collect([i \in 1..Min(Len(f.filter_col), Len(f.filter_val)) |->
                             StringEntry(f.filter_col[i], f.filter_val[i])])
            ELSE Built(<<>>, <<>>)
        numbers ==
            IF f.num_col # <<>> /\ f.num_op # <<>> /\ f.num_val # <<>>
            THEN Collect([i \in 1..Min(Len(f.num_col), Min(Len(f.num_op), Len(f.num_val))) |->
                             NumericEntry(f.num_col[i], f.num_op[i], f.num_val[i])])
            ELSE Built(<<>>, <<>>)
        dates ==
            IF f.date_col # <<>>
            THEN LET max_len == Len(f.date_col)
                     date_from == PadTo(f.date_from, max_len)
                     date_to == PadTo(f.date_to, max_len)
                 IN Collect([i \in 1..Min(max_len, Min(Len(date_from), Len(date_to))) |->
                                DateEntry(f.date_col[i], date_from[i], date_to[i])])
            ELSE Built(<<>>, <<>>)
        all == Collect(<<strings, numbers, dates>>)
        where_clause == Join(all.clauses, " AND ")
    IN IF all.status # 200
       THEN [status |-> all.status, where_clause |-> <<>>, params |-> <<>>]
       ELSE [status |-> 200,
             where_clause |->
                 IF where_clause = <<>> THEN <<>>
                 ELSE <<IF include_dataset_id THEN "AND " ELSE "WHERE ">> \o where_clause,
             params |-> all.params]

(***************************************************************************)
(* How the store evaluates the built WHERE text over one row_data.  A      *)
(* clause is satisfied ("T"), not satisfied or NULL ("F"), or its CAST     *)
(* fails ("E").  Dates are single tokens such as "2025-01-05".             *)
(***************************************************************************)
Dates == {"2025-01-05", "2025-02-10"}
IsDate(v) == Len(v) = 1 /\ v[1] \in Dates
DateValue(v) == IF v[1] = "2025-01-05" THEN 20250105 ELSE 20250210

Placeholders(fragment) ==
    CASE fragment \in {"(", ")", " OR ", " AND ", "AND ", "WHERE "} -> 0
      [] fragment = "(CAST(row_data ->> %s AS NUMERIC) BETWEEN %s AND %s)" -> 3
      [] fragment = "(CAST(row_data ->> %s AS DATE) BETWEEN %s AND %s)" -> 3
      [] OTHER -> 2

RECURSIVE PlaceholderCount(_)
PlaceholderCount(fragments) ==
    IF fragments = <<>> THEN 0
    ELSE Placeholders(Head(fragments)) + PlaceholderCount(Tail(fragments))

\* the conjuncts of a WHERE text (without its leading WHERE / AND)
Conjuncts(where_clause) ==
    IF where_clause = <<>> THEN <<>> ELSE SplitOn(Tail(where_clause), " AND ")

\* '%v%' without its two wildcards
Needle(pattern) == SubSeq(pattern, 2, Len(pattern) - 1)

Compare(fragment, x, lo, hi) ==
    CASE fragment = "(CAST(row_data ->> %s AS NUMERIC) > %s)" -> x > lo
      [] fragment = "(CAST(row_data ->> %s AS NUMERIC) < %s)" -> x < lo
      [] fragment = "(CAST(row_data ->> %s AS NUMERIC) >= %s)" -> x >= lo
      [] fragment = "(CAST(row_data ->> %s AS NUMERIC) <= %s)" -> x <= lo
      [] fragment = "(CAST(row_data ->> %s AS NUMERIC) = %s)" -> x = lo
      [] fragment = "(CAST(row_data ->> %s AS DATE) >= %s)" -> x >= lo
      [] fragment = "(CAST(row_data ->> %s AS DATE) <= %s)" -> x <= lo
      [] OTHER -> lo <= x /\ x <= hi

IsDateFragment(fragment) ==
    fragment \in {"(CAST(row_data ->> %s AS DATE) BETWEEN %s AND %s)",
                  "(CAST(row_data ->> %s AS DATE) >= %s)",
                  "(CAST(row_data ->> %s AS DATE) <= %s)"}

\* one conjunct with its own parameters ps, on one row
ConjunctValue(conjunct, ps, row_data) ==
    IF conjunct[1] = "("
    THEN IF \E j \in 1..(Len(ps) \div 2) :
                RowILike(row_data, ps[2*j - 1].text, Needle(ps[2*j].text))
         THEN "T" ELSE "F"
    ELSE LET key == ps[1].text IN
         IF key \notin KeySet(row_data) THEN "F"
         ELSE LET text == GetText(row_data, key) IN
              IF IsDateFragment(conjunct[1])
              THEN IF ~IsDate(text) \/ \E k \in 2..Len(ps) : ~IsDate(ps[k].text)
                   THEN "E"
                   ELSE IF Compare(conjunct[1], DateValue(text), DateValue(ps[2].text),
                                   DateValue(ps[Len(ps)].text))
                        THEN "T" ELSE "F"
              ELSE IF ~IsNumber(text) THEN "E"
                   ELSE IF Compare(conjunct[1], NumberOf(text), ps[2].num, ps[Len(ps)].num)
                        THEN "T" ELSE "F"

\* the values of all conjuncts of the WHERE text on one row
RowValues(where_clause, params, row_data) ==
    LET cs == Conjuncts(where_clause)
        start(k) == PlaceholderCount(Flatten(SubSeq(cs, 1, k - 1)))
    IN [k \in 1..Len(cs) |->
           ConjunctValue(cs[k],
                         SubSeq(params, start(k) + 1, start(k) + PlaceholderCount(cs[k])),
                         row_data)]

Has(values, v) == \E k \in 1..Len(values) : values[k] = v

\* SELECT row_data FROM expense_rows [WHERE dataset_id = scope] <where_clause>:
\* the possible results.  A row enters the result when every conjunct is
\* satisfied.  A failing CAST fails the query when the row's other conjuncts
\* are satisfied; when another conjunct already excludes the row the store is
\* free to skip the CAST or to evaluate it (the evaluation order of a WHERE
\* is not defined), so both results are possible.
QueryResults(table, scoped, scope, where_clause, params) ==
    LET values(x) == RowValues(where_clause, params, x.row_data)
        in_scope(x) == ~scoped \/ x.dataset_id = scope
        selected == {x \in table : in_scope(x) /\ ~Has(values(x), "E") /\ ~Has(values(x), "F")}
        may_fail == \E x \in table : Has(values(x), "E")
        must_fail == \E x \in table :
                        in_scope(x) /\ Has(values(x), "E") /\ ~Has(values(x), "F")
    IN (IF may_fail THEN {[ok |-> FALSE, rows |-> {}]} ELSE {})
       \cup (IF must_fail THEN {} ELSE {[ok |-> TRUE, rows |-> selected]})

(***************************************************************************)
(* CSV export (expenses.py:106-119 and 298-310).                           *)
(***************************************************************************)
\* csv.DictWriter(buf, fieldnames=headers): writeheader, then writerows.  A
\* row with a key outside fieldnames raises ValueError (extrasaction is left
\* at "raise"); a missing key is written as "" (restval).
DictWriterRow(headers, row_data) ==
    [i \in 1..Len(headers) |->
        IF headers[i] \in KeySet(row_data) THEN GetText(row_data, headers[i]) ELSE <<>>]

\* a slip: no check for the empty result
ExportCsv_NoEmptyCheck(rows) ==
    [status |-> 200, bom |-> TRUE,
     header |-> IF rows = <<>> THEN <<>> ELSE Keys(rows[1]),
     lines |-> [i \in 1..Len(rows) |-> rows[i]]]

ExportCsv(rows) ==
    IF rows = <<>> THEN [status |-> 404, detail |-> "No data found"]
    ELSE LET headers == Keys(rows[1])
         IN IF \E i \in 1..Len(rows) : ~(KeySet(rows[i]) \subseteq SeqToSet(headers))
            THEN [status |-> 500, detail |-> "ValueError"]
            ELSE [status |-> 200, bom |-> TRUE, header |-> headers,
                  lines |-> [i \in 1..Len(rows) |-> DictWriterRow(headers, rows[i])]]

\* the answers download_filtered_csv can give
download_filtered_csv(dataset_id, f) ==
    LET b == build_filter_conditions(f, TRUE)
    IN IF b.status # 200 THEN {[status |-> b.status, detail |-> "filter"]}
       ELSE {IF q.ok THEN ExportCsv(RowData(SortById(q.rows)))
                     ELSE [status |-> 500, detail |-> "DB error"] :
             q \in QueryResults(expense_rows, TRUE, dataset_id, b.where_clause, b.params)}

\* the answers download_all_filtered_csv can give
download_all_filtered_csv(f) ==
    LET b == build_filter_conditions(f, FALSE)
    IN IF b.status # 200 THEN {[status |-> b.status, detail |-> "filter"]}
       ELSE {IF q.ok THEN ExportCsv(RowData(SortByDatasetAndId(q.rows)))
                     ELSE [status |-> 500, detail |-> "DB error"] :
             q \in QueryResults(expense_rows, FALSE, 0, b.where_clause, b.params)}

\* the answers download_all_filtered_json can give (expenses.py:82-86, 123-145)
download_all_filtered_json(f) ==
    LET b == build_filter_conditions(f, FALSE)
    IN IF b.status # 200 THEN {[status |-> b.status, detail |-> "filter"]}
       ELSE {IF q.ok THEN [status |-> 200, total |-> Cardinality(q.rows),
                           data |-> RowData(SortByDatasetAndId(q.rows))]
                     ELSE [status |-> 500, detail |-> "DB error"] :
             q \in QueryResults(expense_rows, FALSE, 0, b.where_clause, b.params)}

DownloadFilteredCsv(r, dataset_id, f) ==
    /\ pc[r] = "query" /\ request[r].endpoint = "download_csv"
    /\ request' = [request EXCEPT ![r] =
          [endpoint |-> "download_csv", auth |-> @.auth,
           dataset_id |-> dataset_id, filters |-> f]]
    /\ \E answer \in download_filtered_csv(dataset_id, f) :
           resp' = [resp EXCEPT ![r] = answer]
    /\ pc' = [pc EXCEPT ![r] = "finally"]
    /\ UNCHANGED <<now, files, datasets, expense_rows, dataset_seq, row_seq,
                   upl, txn, conn>>

DownloadAllFilteredCsv(r, f) ==
    /\ pc[r] = "query" /\ request[r].endpoint = "download_all_csv"
    /\ request' = [request EXCEPT ![r] =
          [endpoint |-> "download_all_csv", auth |-> @.auth, filters |-> f]]
    /\ \E answer \in download_all_filtered_csv(f) :
           resp' = [resp EXCEPT ![r] = answer]
    /\ pc' = [pc EXCEPT ![r] = "finally"]
    /\ UNCHANGED <<now, files, datasets, expense_rows, dataset_seq, row_seq,
                   upl, txn, conn>>

DownloadAllFilteredJson(r, f) ==
    /\ pc[r] = "query" /\ request[r].endpoint = "download_all_json"
    /\ request' = [request EXCEPT ![r] =
          [endpoint |-> "download_all_json", auth |-> @.auth, filters |-> f]]
    /\ \E answer \in download_all_filtered_json(f) :
           resp' = [resp EXCEPT ![r] = answer]
    /\ pc' = [pc EXCEPT ![r] = "finally"]
    /\ UNCHANGED <<now, files, datasets, expense_rows, dataset_seq, row_seq,
                   upl, txn, conn>>

(***************************************************************************)
(* Arguments of the read requests.                                         *)
(***************************************************************************)
DefaultSize == 20
\* the ids handed out so far and the next one, which no dataset has
DatasetIds == 1..dataset_seq
Pages == {1, 2}
Sizes == {1, 2, DefaultSize}
\* the page sizes requested while uploads run concurrently
FewSizes == {1, DefaultSize}

StringFilter(cols, vals) == [NoFilters EXCEPT !.filter_col = cols, !.filter_val = vals]
NumericFilter(cols, ops, vals) ==
    [NoFilters EXCEPT !.num_col = cols, !.num_op = ops, !.num_val = vals]
DateFilter(cols, froms, tos) ==
    [NoFilters EXCEPT !.date_col = cols, !.date_from = froms, !.date_to = tos]

\* the filters tried by the serial specification
ExportFilters == {
    NoFilters,
    NumericFilter(<<<<"a">>>>, <<"ne">>, <<<<"1">>>>),
    StringFilter(<<<<"b">>>>, <<<<"x">>>>),
    StringFilter(<<<<"b">>>>, <<<<"z">>>>),
    StringFilter(<<<<"a">>>>, <<<<"1", ",", " ", "2">>>>),
    StringFilter(<<<<"a">>, <<"b">>>>, <<<<"1">>>>),
    NumericFilter(<<<<"a">>>>, <<"gt">>, <<<<"1">>>>),
    NumericFilter(<<<<"a">>>>, <<"GE">>, <<<<"3">>>>),
    NumericFilter(<<<<"b">>>>, <<"eq">>, <<<<"1">>>>),
    NumericFilter(<<<<"a">>>>, <<"between">>, <<<<"1", ",", "2">>>>),
    NumericFilter(<<<<"a">>>>, <<"between">>, <<<<"1">>>>),
    NumericFilter(<<<<"a">>>>, <<"gt">>, <<<<"x">>>>),
    DateFilter(<<<<"a">>>>, <<<<"2025-01-05">>>>, <<>>),
    DateFilter(<<<<"c">>>>, <<>>, <<>>),
    [NoFilters EXCEPT !.filter_col = <<<<"b">>>>, !.filter_val = <<<<"x">>>>,
                      !.num_col = <<<<"a">>>>, !.num_op = <<"gt">>,
                      !.num_val = <<<<"1">>>>],
    [NoFilters EXCEPT !.filter_col = <<<<"a">>>>, !.filter_val = <<<<"9">>>>,
                      !.num_col = <<<<"b">>>>, !.num_op = <<"eq">>,
                      !.num_val = <<<<"1">>>>] }

\* the answer has been sent: the slot takes the next request
Reset(r) ==
    /\ pc[r] = "done"
    /\ pc' = [pc EXCEPT ![r] = "idle"]
    /\ request' = [request EXCEPT ![r] = NoRequest]
    /\ upl' = [upl EXCEPT ![r] = NoUpload]
    /\ txn' = [txn EXCEPT ![r] = NoTxn]
    /\ conn' = [conn EXCEPT ![r] = NoConn]
    /\ resp' = [resp EXCEPT ![r] = NoResp]
    /\ UNCHANGED <<now, files, datasets, expense_rows, dataset_seq, row_seq>>

\* the upload, list, detail and download handlers, each with the arguments
\* it may be called with
Handlers(r, sizes) ==
    \/ Connect(r)
    \/ ConnectFails(r)
    \/ Upload(r)
    \/ ListDatasets(r)
    \/ \E id \in DatasetIds, page \in Pages, size \in sizes :
           GetDetails(r, id, page, size, <<>>, <<>>)
    \/ \E id \in DatasetIds : DownloadOriginal(r, id)
    \/ Finally(r)

\* the filtered export handlers
Exports(r, filters) ==
    \/ pc[r] = "query" /\ \E id \in DatasetIds, f \in filters : DownloadFilteredCsv(r, id, f)
    \/ pc[r] = "query" /\ \E f \in filters : DownloadAllFilteredCsv(r, f)
    \/ pc[r] = "query" /\ \E f \in filters : DownloadAllFilteredJson(r, f)

(***************************************************************************)
(* SpecBurst: NumClients authorized requests for the upload, list, detail  *)
(* and download endpoints, one per client, run concurrently within one     *)
(* second of the clock.  The clients are interchangeable: client r+1 sends *)
(* its request after client r has sent its own.                            *)
(***************************************************************************)
StoreEndpoints == {"upload", "list", "detail", "download"}

NextBurst ==
    \E r \in Clients :
        \/ \E e \in StoreEndpoints :
              /\ \A q \in 1..(r-1) : pc[q] # "idle"
              /\ Arrive(r, e, GoodHeader)
        \/ MiddlewarePass(r)
        \/ Handlers(r, FewSizes)

SpecBurst == Init /\ [][NextBurst]_vars

(***************************************************************************)
(* Spec: the same requests while the clock advances.                       *)
(***************************************************************************)
Next ==
    \/ Tick
    \/ NextBurst

Spec == Init /\ [][Next]_vars

(***************************************************************************)
(* SpecSerial: one client sends requests one after the other, with every   *)
(* Authorization header and every export filter; at most MaxDatasets       *)
(* uploads get as far as the store.                                        *)
(***************************************************************************)
MaxDatasets == 2

NextSerial ==
    \/ \E e \in Endpoints, h \in Headers :
          /\ e = "upload" => dataset_seq <= MaxDatasets
          /\ Arrive(1, e, h)
    \/ MiddlewareReject(1)
    \/ MiddlewarePass(1)
    \/ Handlers(1, Sizes)
    \/ Exports(1, ExportFilters)
    \/ Reset(1)

SpecSerial == Init /\ [][NextSerial]_vars

(***************************************************************************)
(* Properties of the upload pipeline, the reads and the connections.       *)
(***************************************************************************)
Uploads == {r \in Clients : request[r].endpoint = "upload"}
\* the upload has answered with this status
Answered(r, status) == pc[r] = "done" /\ resp[r].status = status
RowsOf(dataset_id) == {x \in expense_rows : x.dataset_id = dataset_id}
\* the row payloads of upload r, in file order
Payloads(r) == [i \in 1..Len(upl[r].rows) |-> DictZip(upl[r].headers, upl[r].rows[i])]
\* the upload's dataset and all its rows are visible, one per data row
VisibleWhole(r) ==
    /\ \E d \in datasets : d.id = upl[r].dataset_id
    /\ RowData(SortById(RowsOf(upl[r].dataset_id))) = Payloads(r)
\* nothing of the upload is visible
VisibleNothing(r) ==
    /\ ~\E d \in datasets : d.id = upl[r].dataset_id
    /\ RowsOf(upl[r].dataset_id) = {}

\* C1: an upload commits atomically. In every reachable state a dataset is
\* visible iff all of its rows (one per CSV data row) are visible; an upload
\* whose insert or commit failed has been rolled back, leaves no dataset and
\* no row visible, and answers 500.
C1_UploadAtomic ==
    /\ \A d \in datasets : \E r \in Uploads :
           upl[r].dataset_id = d.id /\ VisibleWhole(r)
    /\ \A x \in expense_rows : \E d \in datasets : d.id = x.dataset_id
    /\ \A r \in Uploads :
           /\ (pc[r] = "query") => VisibleNothing(r)
           /\ (pc[r] \in {"finally", "done"} /\ conn[r].opened = 1) =>
                 \/ resp[r].status = 200 /\ VisibleWhole(r)
                 \/ resp[r].status = 500 /\ VisibleNothing(r) /\ txn[r] = NoTxn

\* one upload is committed while another failed after its dataset insert
C1_Witness ==
    \E r1, r2 \in Uploads :
        /\ Answered(r1, 200) /\ VisibleWhole(r1) /\ Len(upl[r1].rows) = 2
        /\ Answered(r2, 500) /\ upl[r2].dataset_id # 0 /\ VisibleNothing(r2)

\* C2: for every dataset in the store, and in every answer that reports it,
\* row_count equals the number of expense_rows carrying its id.
C2_RowCount ==
    /\ \A d \in datasets : d.row_count = Cardinality(RowsOf(d.id))
    /\ \A r \in Uploads : Answered(r, 200) =>
           resp[r].row_count = Cardinality(RowsOf(resp[r].dataset_id))
    /\ \A r \in Clients : (request[r].endpoint = "list" /\ Answered(r, 200)) =>
           \A e \in resp[r].data : e.row_count = Cardinality(RowsOf(e.id))

\* a listed two-row dataset beside a failed upload
C2_Witness ==
    \E r1, r2 \in Clients :
        /\ request[r1].endpoint = "list" /\ Answered(r1, 200)
        /\ \E e \in resp[r1].data : e.row_count = 2
        /\ r2 \in Uploads /\ Answered(r2, 200)

\* C3: a validation failure is raised before any durable write. An upload
\* answered 400 has written no file, opened no connection and inserted
\* nothing; while only rejected uploads have run, the uploads directory and
\* the store are empty.
C3_ValidationBeforeWrite ==
    /\ \A r \in Uploads : Answered(r, 400) =>
           /\ ~upl[r].saved /\ upl[r].dataset_id = 0
           /\ conn[r] = NoConn /\ txn[r] = NoTxn
    /\ (\A r \in Uploads : pc[r] \in {"middleware", "validate"} \/ Answered(r, 400)) =>
           /\ DOMAIN files = {}
           /\ datasets = {} /\ expense_rows = {}
           /\ dataset_seq = 1 /\ row_seq = 1

\* a duplicate header and a short row were both rejected
C3_Witness ==
    \E r1, r2 \in Uploads :
        /\ Answered(r1, 400) /\ resp[r1].detail = "duplicate header"
        /\ upl[r1].content = CsvDupHeader
        /\ Answered(r2, 400) /\ resp[r2].detail = "column count"

\* C4 (as claimed): a download of the dataset of a successful upload streams
\* exactly the uploaded bytes under the original file name.
C4_DownloadRoundTrip ==
    \A r \in Uploads : Answered(r, 200) =>
        LET d == download_expense_csv(upl[r].dataset_id)
        IN d.status = 200 /\ d.filename = upl[r].filename /\ d.body = upl[r].content

\* C5 (as claimed): every detail fetch of the dataset of a successful upload
\* returns exactly its N rows.
C5_DetailReturnsAllRows ==
    \A r \in Uploads, q \in Clients :
        (/\ Answered(r, 200)
         /\ request[q].endpoint = "detail" /\ Answered(q, 200)
         /\ request[q].dataset_id = upl[r].dataset_id) =>
            Len(resp[q].data) = Len(upl[r].rows)

\* C5 (amended): after a successful upload of N rows under header H, a detail
\* fetch reports total_rows = N and returns the rows at positions
\* (page-1)*size+1 .. min(page*size, N) in file order, each with key set H;
\* with page 1 and size >= N these are exactly the N rows.
C5_DetailPage ==
    \A r \in Uploads : Answered(r, 200) =>
        LET n == Len(upl[r].rows)
            expect(page, size) ==
                SubSeq(Payloads(r), (page - 1) * size + 1, Min(page * size, n))
        IN /\ \A page \in Pages, size \in Sizes :
                 LET a == get_expense_details(upl[r].dataset_id, page, size, <<>>, <<>>)
                 IN /\ a.status = 200
                    /\ a.meta.total_rows = n
                    /\ a.data = expect(page, size)
                    /\ \A i \in 1..Len(a.data) :
                           KeySet(a.data[i]) = SeqToSet(upl[r].headers)
                    /\ (page = 1 /\ size >= n) => Len(a.data) = n
           /\ \A q \in Clients :
                 (/\ request[q].endpoint = "detail" /\ Answered(q, 200)
                  /\ request[q].dataset_id = upl[r].dataset_id) =>
                     /\ resp[q].meta.total_rows = n
                     /\ resp[q].data = expect(request[q].page, request[q].size)

\* a two-row upload fetched whole (page 1 of the default size)
C5_Witness ==
    \E r \in Uploads, q \in Clients :
        /\ Answered(r, 200) /\ Len(upl[r].rows) = 2
        /\ request[q].endpoint = "detail" /\ Answered(q, 200)
        /\ request[q].dataset_id = upl[r].dataset_id
        /\ request[q].page = 1 /\ request[q].size = DefaultSize
        /\ Len(resp[q].data) = 2

\* C7 (as claimed): two successful uploads end with distinct dataset ids, each
\* dataset owning exactly its own rows, and with distinct preserved files.
C7_UploadsIndependent ==
    \A r1, r2 \in Uploads :
        (r1 # r2 /\ Answered(r1, 200) /\ Answered(r2, 200)) =>
            /\ upl[r1].dataset_id # upl[r2].dataset_id
            /\ VisibleWhole(r1) /\ VisibleWhole(r2)
            /\ upl[r1].save_path # upl[r2].save_path

CarriesCredentials(header) ==
    /\ header.present
    /\ Len(header.value) >= 3
    /\ header.value[1] = "Basic"
    /\ \E i \in 2..Len(header.value) :
           /\ B64(header.value[i]).ok
           /\ B64(header.value[i]).text = USERNAME \o <<":">> \o PASSWORD

\* C6: a request whose Authorization header is missing, not Basic,
\* undecodable or carries a wrong user name or password is answered 401 with
\* the Basic challenge and an empty body, and its route handler is never
\* invoked: it opens no connection, reads no upload and touches no store.
C6_UnauthorizedRejected ==
    \A r \in Clients :
        (pc[r] \notin {"idle", "middleware"} /\ ~CarriesCredentials(request[r].auth)) =>
            /\ pc[r] = "done"
            /\ resp[r].status = 401
            /\ resp[r].www_authenticate = "Basic realm"
            /\ resp[r].body = <<>>
            /\ conn[r] = NoConn /\ upl[r] = NoUpload /\ txn[r] = NoTxn

\* an upload with the right user name and a wrong password was refused
C6_Witness ==
    \E r \in Clients :
        /\ request[r].endpoint = "upload"
        /\ request[r].auth = Header(<<"Basic", " ", "YWRtaW46d3Jvbmc=">>)
        /\ pc[r] = "done" /\ resp[r].status = 401

\* the CSV exports whose handler has run its query
CsvExports == {r \in Clients : /\ request[r].endpoint \in {"download_csv", "download_all_csv"}
                               /\ pc[r] \in {"finally", "done"}
                               /\ conn[r].opened = 1}
\* the filter of a CSV export as built, and what the store can answer to it
BuiltFor(r) == build_filter_conditions(request[r].filters,
                                       request[r].endpoint = "download_csv")
ResultsFor(r) ==
    QueryResults(expense_rows, request[r].endpoint = "download_csv",
                 IF request[r].endpoint = "download_csv" THEN request[r].dataset_id ELSE 0,
                 BuiltFor(r).where_clause, BuiltFor(r).params)
OrderedFor(r, rows) ==
    RowData(IF request[r].endpoint = "download_csv"
            THEN SortById(rows) ELSE SortByDatasetAndId(rows))

\* C8: both CSV exports answer 404 whenever the filtered result set is
\* empty, also when the dataset id does not exist; a success answer always
\* carries a header and at least one line, one per matching row.
C8_EmptyExportNotFound ==
    \A r \in CsvExports :
        /\ (BuiltFor(r).status = 200 /\ ResultsFor(r) = {[ok |-> TRUE, rows |-> {}]}) =>
               resp[r].status = 404
        /\ (/\ request[r].endpoint = "download_csv"
            /\ ~\E d \in datasets : d.id = request[r].dataset_id) =>
               resp[r].status # 200
        /\ resp[r].status = 200 =>
               /\ Len(resp[r].lines) >= 1
               /\ \E q \in ResultsFor(r) :
                      q.ok /\ Cardinality(q.rows) = Len(resp[r].lines)

\* a filter that matches nothing in a stored dataset, and an export of a
\* dataset id that does not exist, are both answered 404
C8_Witness ==
    \E r \in CsvExports :
        /\ pc[r] = "done" /\ resp[r].status = 404
        /\ request[r].endpoint = "download_csv"
        /\ request[r].filters = StringFilter(<<<<"b">>>>, <<<<"z">>>>)
        /\ RowsOf(request[r].dataset_id) # {}

\* C9 (as claimed): every non-empty filtered result, also one that spans
\* datasets with different headers, is exported: status 200, the header is
\* the key order of the first matching row, one line per matching row, each
\* value looked up by header name and "" where the row lacks the key.
C9_ExportSucceeds ==
    \A r \in CsvExports :
        \A q \in ResultsFor(r) :
            (BuiltFor(r).status = 200 /\ ResultsFor(r) = {q} /\ q.ok /\ q.rows # {}) =>
                LET rows == OrderedFor(r, q.rows)
                IN /\ resp[r].status = 200
                   /\ resp[r].header = Keys(rows[1])
                   /\ Len(resp[r].lines) = Len(rows)
                   /\ \A i \in 1..Len(rows), k \in 1..Len(resp[r].header) :
                          resp[r].lines[i][k] =
                              IF resp[r].header[k] \in KeySet(rows[i])
                              THEN GetText(rows[i], resp[r].header[k]) ELSE <<>>

(***************************************************************************)
(* SpecDetail: the store holds what one committed upload of a one-column   *)
(* CSV of up to MaxRows data rows left (or nothing), and one client        *)
(* fetches details one request after the other, with and without the      *)
(* string filter.                                                          *)
(***************************************************************************)
MaxRows == 21

\* the cell of data row i of the uploaded file: x, X, y, x, X, y, ...
Cell(i) == CASE i % 3 = 1 -> <<"x">> [] i % 3 = 2 -> <<"X">> [] OTHER -> <<"y">>

InitDetail ==
    \E n \in 0..MaxRows :
        /\ now = 0
        /\ files = IF n = 0 THEN [p \in {} |-> <<>>]
                   ELSE [p \in {SavePath(0, CsvName)} |-> <<>>]
        /\ datasets = IF n = 0 THEN {}
                      ELSE {[id |-> 1, file_name |-> CsvName,
                             row_count |-> RowCount([i \in 1..n |-> <<Cell(i)>>]),
                             original_path |-> SavePath(0, CsvName)]}
        /\ expense_rows = {[id |-> i, dataset_id |-> 1,
                            row_data |-> DictZip(<<<<"b">>>>, <<Cell(i)>>)] : i \in 1..n}
        /\ dataset_seq = IF n = 0 THEN 1 ELSE 2
        /\ row_seq = n + 1
        /\ pc = [r \in Clients |-> "idle"]
        /\ request = [r \in Clients |-> NoRequest]
        /\ upl = [r \in Clients |-> NoUpload]
        /\ txn = [r \in Clients |-> NoTxn]
        /\ conn = [r \in Clients |-> NoConn]
        /\ resp = [r \in Clients |-> NoResp]

\* the page sizes a client asks for: small ones, the default and one above it
DetailSizes == {1, 2, DefaultSize, DefaultSize + 1}
\* filter_col / filter_val of a detail request: absent, matching some rows,
\* matching none, naming a column no row has
DetailFilters == {
    [col |-> <<>>, val |-> <<>>],
    [col |-> <<"b">>, val |-> <<"x">>],
    [col |-> <<"b">>, val |-> <<"z">>],
    [col |-> <<"c">>, val |-> <<"x">>] }

NextDetail ==
    \/ Arrive(1, "detail", GoodHeader)
    \/ MiddlewarePass(1)
    \/ Connect(1)
    \/ ConnectFails(1)
    \/ \E id \in DatasetIds, page \in Pages, size \in DetailSizes, f \in DetailFilters :
           GetDetails(1, id, page, size, f.col, f.val)
    \/ Finally(1)
    \/ Reset(1)

SpecDetail == InitDetail /\ [][NextDetail]_vars

(***************************************************************************)
(* Properties of the dataset detail (SpecDetail).                          *)
(***************************************************************************)
\* the detail requests whose handler has run its queries
DetailFetches == {r \in Clients : /\ request[r].endpoint = "detail"
                                  /\ pc[r] \in {"finally", "done"}
                                  /\ conn[r].opened = 1}
\* the rows of the request's dataset that match its filter, in id order
MatchingFor(r) ==
    SelectSeq(SortById(RowsOf(request[r].dataset_id)),
              LAMBDA x : (request[r].filter_col # <<>> /\ request[r].filter_val # <<>>) =>
                            /\ request[r].filter_col \in KeySet(x.row_data)
                            /\ ILikeContains(GetText(x.row_data, request[r].filter_col),
                                             request[r].filter_val))
\* not-found for an absent id; otherwise the rows at positions (p-1)*s+1 .. p*s
\* of the matching rows and the count of all of them
DetailWindow ==
    \A r \in DetailFetches :
        LET p == request[r].page
            s == request[r].size
            m == MatchingFor(r)
            first == (p - 1) * s + 1
            last == Min(p * s, Len(m))
        IN IF ~\E d \in datasets : d.id = request[r].dataset_id
           THEN resp[r].status = 404
           ELSE /\ resp[r].status = 200
                /\ resp[r].meta.total_rows = Len(m)
                /\ resp[r].data = [i \in 1..(IF last >= first THEN last - first + 1 ELSE 0)
                                      |-> m[first + i - 1].row_data]

\* C11 (as claimed): a detail fetch answers 404 for an absent dataset id;
\* otherwise it returns the matching rows at positions (p-1)*s+1 .. p*s in id
\* order with the count of all matching rows, and never more rows than the
\* configured page size (the only page size the code configures is the
\* default of get_expense_details).
C11_DetailPageBounded ==
    /\ DetailWindow
    /\ \A r \in DetailFetches :
           resp[r].status = 200 => Len(resp[r].data) <= DefaultSize

(***************************************************************************)
(* SpecFilter: the store holds one committed upload of the two-column CSV, *)
(* and one client sends export requests one after the other whose filter   *)
(* groups are lists of every length up to MaxListLen, paired or not.       *)
(***************************************************************************)
MaxListLen == 2

\* the lists of at most MaxListLen elements of S (a repeated query parameter)
Lists(S) == UNION {[1..k -> S] : k \in 0..MaxListLen}

InitFilter ==
    /\ now = 0
    /\ files = [p \in {SavePath(0, CsvName)} |-> <<>>]
    /\ datasets = {[id |-> 1, file_name |-> CsvName,
                    row_count |-> RowCount(validate_csv(CsvName, CsvTwoCols).rows),
                    original_path |-> SavePath(0, CsvName)]}
    /\ expense_rows =
          LET v == validate_csv(CsvName, CsvTwoCols)
          IN {[id |-> i, dataset_id |-> 1, row_data |-> DictZip(v.headers, v.rows[i])] :
                 i \in 1..Len(v.rows)}
    /\ dataset_seq = 2
    /\ row_seq = 3
    /\ pc = [r \in Clients |-> "idle"]
    /\ request = [r \in Clients |-> NoRequest]
    /\ upl = [r \in Clients |-> NoUpload]
    /\ txn = [r \in Clients |-> NoTxn]
    /\ conn = [r \in Clients |-> NoConn]
    /\ resp = [r \in Clients |-> NoResp]

\* num_op values: a known operator, between in mixed case, an operator the
\* code does not know, the empty string
OpInputs == {"gt", "Between", "ne", ""}
\* num_val values: a number, not a number, a pair
NumValInputs == {<<"1">>, <<"x">>, <<"1", ",", "2">>}
NumericInputs ==
    {NumericFilter(cols, ops, vals) :
        cols \in Lists({<<"a">>}), ops \in Lists(OpInputs), vals \in Lists(NumValInputs)}
\* filter_val values: one alternative, two, none but separators, quoting
StringInputs ==
    {StringFilter(cols, vals) :
        cols \in Lists({<<"b">>, <<"c">>}),
        vals \in Lists({<<"x">>, <<"x", ",", "z">>, <<",", " ">>, <<"'", ";">>})}
\* date_from / date_to values: absent ("") or a date
DateInputs ==
    {DateFilter(cols, froms, tos) :
        cols \in Lists({<<"a">>}),
        froms \in Lists({<<>>, <<"2025-01-05">>}),
        tos \in Lists({<<>>, <<"2025-02-10">>})}
\* the three groups together
MixedInputs ==
    {[NoFilters EXCEPT !.filter_col = <<<<"b">>>>, !.filter_val = <<<<"x">>>>,
                       !.num_col = <<<<"a">>>>, !.num_op = <<op>>, !.num_val = <<<<"1">>>>,
                       !.date_col = <<<<"a">>>>, !.date_to = <<<<"2025-02-10">>>>] :
        op \in OpInputs}
FilterInputs == NumericInputs \cup StringInputs \cup DateInputs \cup MixedInputs

ExportEndpoints == {"download_csv", "download_all_csv", "download_all_json"}

NextFilter ==
    \/ \E e \in ExportEndpoints : Arrive(1, e, GoodHeader)
    \/ MiddlewarePass(1)
    \/ Connect(1)
    \/ ConnectFails(1)
    \/ Exports(1, FilterInputs)
    \/ Finally(1)
    \/ Reset(1)

SpecFilter == InitFilter /\ [][NextFilter]_vars

(***************************************************************************)
(* Properties of the filter builder (SpecFilter).                          *)
(***************************************************************************)
\* the export requests whose handler has called build_filter_conditions
FilterExports == {r \in Clients : /\ request[r].endpoint \in ExportEndpoints
                                  /\ pc[r] \in {"finally", "done"}
                                  /\ conn[r].opened = 1}
\* the answer of a handler whose filter could not be built: no query was run
FilterFailure(status) == [status |-> status, detail |-> "filter"]
\* the operators the numeric group knows
KnownOps == {"gt", "lt", "ge", "le", "eq", "between"}
UnknownOp(op) == LowerOp(op) \notin KnownOps
\* the numeric positions that have a column, an operator and a value
NumericPositions(f) ==
    IF f.num_col = <<>> \/ f.num_op = <<>> \/ f.num_val = <<>> THEN {}
    ELSE 1..Min(Len(f.num_col), Min(Len(f.num_op), Len(f.num_val)))
\* the value of numeric position j reads as a number (as two for between)
NumbersAt(f, j) ==
    IF LowerOp(f.num_op[j]) = "between"
    THEN LET parts == SplitOn(f.num_val[j], ",")
         IN Len(parts) = 2 /\ \A k \in 1..2 : IsNumber(Strip(parts[k]))
    ELSE IsNumber(Strip(f.num_val[j]))

\* C12 (as claimed): whenever num_op contains an operator outside gt, lt, ge,
\* le, eq, between (case-insensitive), the request fails with the
\* invalid-operator 400 and no query is executed.
C12_UnknownOperatorRejected ==
    \A r \in FilterExports :
        (\E i \in 1..Len(request[r].filters.num_op) :
              UnknownOp(request[r].filters.num_op[i])) =>
            resp[r] = FilterFailure(400)

\* C12 (amended): whenever a numeric position that has a column, an operator
\* and a value carries an unknown operator, the request fails and no query is
\* executed: with the invalid-operator 400 when the values of all earlier
\* positions read as numbers, with 500 otherwise.  An unknown operator at a
\* position one of the three lists does not reach is ignored, and no 400 is
\* raised without an unknown operator at a position that has all three.
C12_UnknownOperatorAtPosition ==
    \A r \in FilterExports :
        LET f == request[r].filters
            unknown == {i \in NumericPositions(f) : UnknownOp(f.num_op[i])}
        IN IF unknown = {}
           THEN resp[r].status # 400
           ELSE LET i == CHOOSE i \in unknown : \A k \in unknown : i <= k
                IN IF \A j \in 1..(i-1) : NumbersAt(f, j)
                   THEN resp[r] = FilterFailure(400)
                   ELSE resp[r] = FilterFailure(500)

\* an unknown operator in second position, after a position that built its
\* clause, was answered 400
C12_Witness ==
    \E r \in FilterExports :
        /\ request[r].filters =
              NumericFilter(<<<<"a">>, <<"a">>>>, <<"gt", "ne">>, <<<<"1">>, <<"1">>>>)
        /\ pc[r] = "done" /\ resp[r] = FilterFailure(400)

\* the pieces a filter text may be made of, with their placeholders
FixedFragments ==
    {"(", ")", " OR ", " AND ", "AND ", "WHERE ",
     "row_data ->> %s ILIKE %s",
     "(CAST(row_data ->> %s AS NUMERIC) BETWEEN %s AND %s)",
     "(CAST(row_data ->> %s AS NUMERIC) > %s)",
     "(CAST(row_data ->> %s AS NUMERIC) < %s)",
     "(CAST(row_data ->> %s AS NUMERIC) >= %s)",
     "(CAST(row_data ->> %s AS NUMERIC) <= %s)",
     "(CAST(row_data ->> %s AS NUMERIC) = %s)",
     "(CAST(row_data ->> %s AS DATE) BETWEEN %s AND %s)",
     "(CAST(row_data ->> %s AS DATE) >= %s)",
     "(CAST(row_data ->> %s AS DATE) <= %s)"}
\* what each placeholder of a piece stands for, left to right
Expects(fragment) ==
    CASE fragment = "row_data ->> %s ILIKE %s" -> <<"column", "pattern">>
      [] fragment = "(CAST(row_data ->> %s AS NUMERIC) BETWEEN %s AND %s)" ->
             <<"column", "number", "number">>
      [] fragment \in {"(CAST(row_data ->> %s AS NUMERIC) > %s)",
                       "(CAST(row_data ->> %s AS NUMERIC) < %s)",
                       "(CAST(row_data ->> %s AS NUMERIC) >= %s)",
                       "(CAST(row_data ->> %s AS NUMERIC) <= %s)",
                       "(CAST(row_data ->> %s AS NUMERIC) = %s)"} -> <<"column", "number">>
      [] fragment = "(CAST(row_data ->> %s AS DATE) BETWEEN %s AND %s)" ->
             <<"column", "text", "text">>
      [] fragment \in {"(CAST(row_data ->> %s AS DATE) >= %s)",
                       "(CAST(row_data ->> %s AS DATE) <= %s)"} -> <<"column", "text">>
      [] OTHER -> <<>>
\* the columns a request names
ColumnsOf(f) == SeqToSet(f.filter_col) \cup SeqToSet(f.num_col) \cup SeqToSet(f.date_col)
\* the parameter is what the placeholder stands for
Fills(param, expected, f) ==
    CASE expected = "column" -> param \in {TextParam(c) : c \in ColumnsOf(f)}
      [] expected = "number" -> DOMAIN param = {"num"}
      [] expected = "pattern" -> /\ DOMAIN param = {"text"}
                                 /\ Len(param.text) >= 3
                                 /\ Head(param.text) = "%"
                                 /\ param.text[Len(param.text)] = "%"
      [] OTHER -> DOMAIN param = {"text"} /\ param.text # <<>>

\* C13: the filter text is made of fixed pieces only, so no column name or
\* value of the request appears in it; its placeholders are as many as the
\* returned parameters and each parameter, left to right, is what its
\* placeholder stands for; the text is empty (then without parameters) or
\* opens with WHERE (all-datasets exports) or AND (single-dataset export).
C13_InjectionSafe ==
    \A r \in FilterExports :
        LET f == request[r].filters
            single == request[r].endpoint = "download_csv"
            b == build_filter_conditions(f, single)
            expected == Flatten([i \in 1..Len(b.where_clause) |-> Expects(b.where_clause[i])])
        IN b.status = 200 =>
              /\ \A i \in 1..Len(b.where_clause) : b.where_clause[i] \in FixedFragments
              /\ Len(expected) = Len(b.params)
              /\ \A k \in 1..Len(expected) : Fills(b.params[k], expected[k], f)
              /\ \/ b.where_clause = <<>> /\ b.params = <<>>
                 \/ /\ Head(b.where_clause) = (IF single THEN "AND " ELSE "WHERE ")
                    /\ \A i \in 2..Len(b.where_clause) :
                           b.where_clause[i] \notin {"AND ", "WHERE "}

\* a single-dataset export with a clause of each of the three groups has run
\* with its filter of six parameters
C13_Witness ==
    \E r \in FilterExports :
        /\ request[r].endpoint = "download_csv"
        /\ request[r].filters \in MixedInputs
        /\ request[r].filters.num_op = <<"gt">>
        /\ Len(BuiltFor(r).params) = 6
        /\ resp[r] # FilterFailure(400)

\* the value of a string position names at least one alternative
HasAlternative(val) ==
    \E k \in 1..Len(SplitOn(val, ",")) : Strip(SplitOn(val, ",")[k]) # <<>>
\* the list has a non-empty entry at position i
PresentAt(list, i) == i <= Len(list) /\ list[i] # <<>>
\* the clause each position of each group is to emit, "none" where an entry
\* of the position is missing
ExpectedClauses(f) ==
    LET strings == [i \in 1..Min(Len(f.filter_col), Len(f.filter_val)) |->
                       IF HasAlternative(f.filter_val[i]) THEN "string" ELSE "none"]
        numbers == [i \in 1..Min(Len(f.num_col), Min(Len(f.num_op), Len(f.num_val))) |->
                       "numeric"]
        dates == [i \in 1..Len(f.date_col) |->
                     CASE PresentAt(f.date_from, i) /\ PresentAt(f.date_to, i) -> "date range"
                       [] PresentAt(f.date_from, i) -> "date from"
                       [] PresentAt(f.date_to, i) -> "date to"
                       [] OTHER -> "none"]
    IN SelectSeq(strings \o numbers \o dates, LAMBDA kind : kind # "none")
\* the group and shape of one conjunct of a filter text
ClauseKind(conjunct) ==
    CASE Head(conjunct) = "(" -> "string"
      [] Head(conjunct) = "(CAST(row_data ->> %s AS DATE) BETWEEN %s AND %s)" -> "date range"
      [] Head(conjunct) = "(CAST(row_data ->> %s AS DATE) >= %s)" -> "date from"
      [] Head(conjunct) = "(CAST(row_data ->> %s AS DATE) <= %s)" -> "date to"
      [] OTHER -> "numeric"
\* the columns that the parameters of a built filter name
ColumnParams(b) ==
    LET expected == Flatten([i \in 1..Len(b.where_clause) |-> Expects(b.where_clause[i])])
    IN {b.params[k].text : k \in {k \in 1..Len(expected) : expected[k] = "column"}}

\* C14: unequal list lengths never make build_filter_conditions fail (it
\* fails only for a numeric position that has column, operator and value and
\* whose operator is unknown or whose value is not a number); the text it
\* returns has one clause, in order, for exactly the positions where every
\* entry is present (a string value with an alternative; column, operator
\* and value; a date column with from, to or both) and none for the others.
C14_LenientLengths ==
    \A r \in FilterExports :
        LET f == request[r].filters
            b == build_filter_conditions(f, request[r].endpoint = "download_csv")
            clauses == Conjuncts(b.where_clause)
        IN /\ b.status # 200 =>
                 \E j \in NumericPositions(f) : UnknownOp(f.num_op[j]) \/ ~NumbersAt(f, j)
           /\ b.status = 200 =>
                 /\ [k \in 1..Len(clauses) |-> ClauseKind(clauses[k])] = ExpectedClauses(f)
                 /\ ColumnParams(b) \subseteq ColumnsOf(f)

\* two date columns with one from and no to: one clause, for the first
\* column only
C14_Witness ==
    \E r \in FilterExports :
        /\ request[r].filters =
              DateFilter(<<<<"a">>, <<"a">>>>, <<<<"2025-01-05">>>>, <<>>)
        /\ pc[r] = "done"
        /\ Len(Conjuncts(BuiltFor(r).where_clause)) = 1

====
